---- MODULE Spec2Model ----
(***************************************************************************)
(* Model of fiszki_pdf_generator.py: the command line entry point (main),  *)
(* the CSV reader, the page grid loop of generate_pdf and the image        *)
(* pipeline of draw_card (fetch_image, make_placeholder,                   *)
(* pil_image_to_reportlab).                                                *)
(*                                                                         *)
(* Strings are sequences of one-character strings, so that startswith,     *)
(* slicing, lower() and strip() are computed and not assumed.              *)
(* Lengths are exact multiples of the unit defined by mm below; the        *)
(* source computes the same expressions in floating point.                 *)
(***************************************************************************)
EXTENDS Integers, Sequences, FiniteSets, TLC

(* ------------------------------------------------------------------ *)
(* Configuration constants (source lines 35-58)                        *)
(* ------------------------------------------------------------------ *)
MARGIN_MM == 12
GAP_MM == 0
COLUMNS == 3
ROWS == 3
CARDS_PER_PAGE == COLUMNS * ROWS
REQUEST_TIMEOUT == 8

\* One millimetre (reportlab.lib.units.mm).  The length unit of the model is
\* 1/(COLUMNS*ROWS) mm, which makes the divisions by COLUMNS and by ROWS exact.
mm == COLUMNS * ROWS

\* reportlab.lib.pagesizes.A4 == (210*mm, 297*mm)
A4 == <<210 * mm, 297 * mm>>
PAGE_SIZE == A4

(* ------------------------------------------------------------------ *)
(* Bounds of the model                                                 *)
(* ------------------------------------------------------------------ *)
\* longest input file whose rows all carry the same image link
MaxRows == 10
\* longest input file whose rows are chosen freely
MaxMixedRows == 2
\* largest number of command line arguments after the program name
MaxArgc == 2

(* ------------------------------------------------------------------ *)
(* Strings                                                             *)
(* ------------------------------------------------------------------ *)
startswith(s, prefix) ==
    /\ Len(s) >= Len(prefix)
    /\ SubSeq(s, 1, Len(prefix)) = prefix

\* str.lower on the letters that occur in the links of the model
LowerChar(ch) ==
    CASE ch = "H" -> "h"
      [] ch = "T" -> "t"
      [] ch = "P" -> "p"
      [] OTHER -> ch

lower(s) == [i \in 1..Len(s) |-> LowerChar(s[i])]

RECURSIVE lstrip(_)
lstrip(s) == IF s # <<>> /\ Head(s) = " " THEN lstrip(Tail(s)) ELSE s

RECURSIVE rstrip(_)
rstrip(s) ==
    IF s # <<>> /\ s[Len(s)] = " " THEN rstrip(SubSeq(s, 1, Len(s) - 1)) ELSE s

strip(s) == rstrip(lstrip(s))

FILE_PREFIX == <<"f", "i", "l", "e", ":", "/", "/">>
HTTP_PREFIX == <<"h", "t", "t", "p">>

(* ------------------------------------------------------------------ *)
(* The world outside the program: file system and network              *)
(* ------------------------------------------------------------------ *)
\* paths that exist on the file system, with what Image.open and a later
\* save make of each: "good" decodes and saves, "unsavable" opens but
\* cannot be written as PNG (truncated data, CMYK), "garbage" is no image.
\* One existing file is named "http", a name that also passes the test for
\* an HTTP link.
FileKind(path) ==
    CASE path = <<"a">> -> "good"
      [] path = <<"c">> -> "unsavable"
      [] path = <<"g">> -> "garbage"
      [] path = HTTP_PREFIX -> "good"
      [] OTHER -> "missing"

\* os.path.exists
exists(path) == FileKind(path) # "missing"

\* what requests.get(url, timeout) + raise_for_status ends with
HttpOutcome(url) ==
    CASE lower(url) = HTTP_PREFIX \o <<":", "/", "/", "u">> -> "ok"
      [] lower(url) = HTTP_PREFIX \o <<":", "/", "/", "e">> -> "status_error"
      [] lower(url) = HTTP_PREFIX \o <<":", "/", "/", "t">> -> "timeout"
      [] OTHER -> "invalid_url"

NoImage == [kind |-> "none", label |-> <<>>]

\* PIL.Image.open(path): the image, or NoImage when it raises
ImageOpen(path) ==
    IF FileKind(path) \in {"good", "unsavable"}
    THEN [kind |-> FileKind(path), label |-> path]
    ELSE NoImage

(* ------------------------------------------------------------------ *)
(* Inputs                                                              *)
(* ------------------------------------------------------------------ *)
\* image links as they stand in the CSV cell, before read_csv strips them
RawLinks ==
    { <<>>,
      <<" ">>,
      <<" ", "a">>,
      <<"a">>,
      <<"c">>,
      <<"g">>,
      <<"z">>,
      HTTP_PREFIX,
      FILE_PREFIX \o <<"a">>,
      FILE_PREFIX \o <<"z">>,
      HTTP_PREFIX \o <<":", "/", "/", "u">>,
      <<"H", "T", "T", "P">> \o <<":", "/", "/", "e">>,
      HTTP_PREFIX \o <<":", "/", "/", "t">> }

Row(tekst, tlum, link) ==
    [TEKST |-> tekst, TLUMACZENIE |-> tlum, LINK_DO_OBRAZKA |-> link]

\* a CSV line whose three cells are empty, and one that has a translation only
EmptyRow == Row(<<>>, <<>>, <<>>)
OnlyTlum == Row(<<>>, <<"c", "a", "t">>, <<>>)

\* every link with the first word, and the second word with a link that
\* cannot be resolved and with one that resolves to an unsavable image
RawRows ==
    {EmptyRow, OnlyTlum}
        \cup {Row(<<"k", "o", "t">>, <<"c", "a", "t">>, l) : l \in RawLinks}
        \cup {Row(<<"p", "i", "e", "s">>, <<"c", "a", "t">>, l) :
                  l \in {<<>>, <<"c">>}}

\* files of up to MaxRows lines that all carry the same link: none, or an
\* image that cannot be fitted
UniformLinks == {<<>>, <<"c">>}

UniformFiles ==
    UNION {{[i \in 1..n |-> Row(<<"k", "o", "t">>, <<"c", "a", "t">>, l)] :
                l \in UniformLinks} : n \in 0..MaxRows}

\* files of up to MaxMixedRows freely chosen lines
MixedFiles == UNION {[1..n -> RawRows] : n \in 0..MaxMixedRows}

MissingFile == [exists |-> FALSE, readable |-> FALSE, rows |-> <<>>]
\* a path that exists but cannot be opened or decoded as UTF-8
UnreadableFile == [exists |-> TRUE, readable |-> FALSE, rows |-> <<>>]

InputFiles ==
    {MissingFile, UnreadableFile}
        \cup {[exists |-> TRUE, readable |-> TRUE, rows |-> rs] :
                 rs \in UniformFiles \cup MixedFiles}

\* The record lists handed to generate_pdf by a caller other than main (the
\* module is importable): the same lines as records, neither filtered nor
\* stripped, the empty list among them.
DirectRecords(rs) ==
    [i \in 1..Len(rs) |->
        [TEKST |-> rs[i].TEKST,
         TLUMACZENIE |-> rs[i].TLUMACZENIE,
         LINK_DO_OBRAZKA |-> rs[i].LINK_DO_OBRAZKA,
         row_index |-> i]]

DirectLists == {DirectRecords(rs) : rs \in UniformFiles \cup MixedFiles}

(* ------------------------------------------------------------------ *)
(* read_csv                                                            *)
(* ------------------------------------------------------------------ *)
\* "r.get(a) or r.get(b) or ...": with the three documented column names in
\* the header, an empty cell is falsy and the aliases that follow are absent,
\* so the chain yields None exactly for an empty cell.
IsNone(cell) == cell = <<>>

RECURSIVE read_rows(_, _)
read_rows(raw, i) ==
    IF i > Len(raw) THEN <<>>
    ELSE LET rr == raw[i]
             skip == /\ IsNone(rr.TEKST)
                     /\ IsNone(rr.TLUMACZENIE)
                     /\ IsNone(rr.LINK_DO_OBRAZKA)
             rec == [TEKST |-> strip(rr.TEKST),
                     TLUMACZENIE |-> strip(rr.TLUMACZENIE),
                     LINK_DO_OBRAZKA |-> strip(rr.LINK_DO_OBRAZKA),
                     row_index |-> i]
         IN (IF skip THEN <<>> ELSE <<rec>>) \o read_rows(raw, i + 1)

read_csv(file) == read_rows(file.rows, 1)

(* ------------------------------------------------------------------ *)
(* fetch_image, make_placeholder                                       *)
(* ------------------------------------------------------------------ *)
\* One access to the file system or the network made while resolving.
Access(how, target, timeout) ==
    [access |-> how, target |-> target, timeout |-> timeout]

\* Image.open(path) as the only access of a call
OpenResult(path, probed) ==
    [img |-> ImageOpen(path),
     attempts |-> <<Access("open", path, 0)>>,
     probes |-> probed]

\* requests.get + raise_for_status + Image.open(BytesIO(content))
HttpResult(url, probed) ==
    [img |-> IF HttpOutcome(url) = "ok"
             THEN [kind |-> "good", label |-> url] ELSE NoImage,
     attempts |-> <<Access("http", url, REQUEST_TIMEOUT)>>,
     probes |-> probed]

\* (mutant) a failed HTTP fetch falls through to opening the link as a path
fetch_image_mut(link) ==
    IF link = <<>>
    THEN [img |-> NoImage, attempts |-> <<>>, probes |-> <<>>]
    ELSE IF startswith(link, FILE_PREFIX)
    THEN OpenResult(SubSeq(link, 8, Len(link)), <<>>)
    ELSE IF exists(link)
    THEN OpenResult(link, <<link>>)
    ELSE IF startswith(lower(link), HTTP_PREFIX)
              /\ HttpResult(link, <<link>>).img # NoImage
    THEN HttpResult(link, <<link>>)
    ELSE IF startswith(lower(link), HTTP_PREFIX)
    THEN [img |-> ImageOpen(link),
          attempts |-> HttpResult(link, <<link>>).attempts
                          \o <<Access("open", link, 0)>>,
          probes |-> <<link>>]
    ELSE OpenResult(link, <<link>>)

\* The result of fetch_image(link): img = NoImage stands for a raised
\* exception; attempts lists the opens and fetches made, probes the paths
\* handed to os.path.exists.
fetch_image(link) ==
    IF link = <<>>
    THEN [img |-> NoImage, attempts |-> <<>>, probes |-> <<>>]
    ELSE IF startswith(link, FILE_PREFIX)
    THEN OpenResult(SubSeq(link, 8, Len(link)), <<>>)
    ELSE IF exists(link)
    THEN OpenResult(link, <<link>>)
    ELSE IF startswith(lower(link), HTTP_PREFIX)
    THEN HttpResult(link, <<link>>)
    ELSE OpenResult(link, <<link>>)

make_placeholder(text) == [kind |-> "placeholder", label |-> text]

\* Whether pil_image_to_reportlab(img, ...) can return (TRUE) or raise (FALSE).
\* An image that cannot be written as PNG always raises; for any other image
\* the save may still fail for reasons outside the program (a PIL build
\* without the PNG encoder, memory).
FitOutcomes(img) == IF img.kind = "unsavable" THEN {FALSE} ELSE BOOLEAN

(* ------------------------------------------------------------------ *)
(* State                                                               *)
(* ------------------------------------------------------------------ *)
VARIABLES
    entry,       \* "main": run as a script; "generate_pdf": called directly
    argc,        \* len(sys.argv) - 1
    inFile,      \* what sys.argv[1] names
    MARGIN,      \* page margin, in length units
    GAP,         \* gap between cards, in length units
    pc,          \* position of the program
    exitStatus,  \* process exit status, -1 while running
    out,         \* lines printed so far
    raisedBy,    \* the function whose exception is propagating, or "none"
    rows,        \* main's rows / generate_pdf's data_rows
    genCalls,    \* the arguments of every call of generate_pdf
    card_w, card_h, total, pages, idx, p, r, col,
    word,        \* draw_card's word
    pil_img,     \* draw_card's pil_img
    attempts,    \* accesses made by fetch_image for the current card
    probes,      \* os.path.exists probes made for the current card
    fits,        \* calls of pil_image_to_reportlab for the current card
    calls,       \* the arguments of every call of draw_card
    drawn,       \* the image of every c.drawImage
    events       \* canvas operations and the summary print, in order

vars == <<entry, argc, inFile, MARGIN, GAP, pc, exitStatus, out, raisedBy, rows,
          genCalls, card_w, card_h, total, pages, idx, p, r, col, word, pil_img,
          attempts, probes, fits, calls, drawn, events>>

inputVars == <<entry, argc, inFile, MARGIN, GAP>>
mainVars == <<exitStatus, out, raisedBy, rows, genCalls>>
layoutVars == <<card_w, card_h, total, pages>>
loopVars == <<idx, p, r, col>>
cardVars == <<word, pil_img, attempts, probes, fits>>
canvasVars == <<calls, drawn, events>>

InitProgram ==
    /\ exitStatus = -1
    /\ out = <<>>
    /\ raisedBy = "none"
    /\ card_w = 0 /\ card_h = 0 /\ total = 0 /\ pages = 0
    /\ idx = 0 /\ p = 0 /\ r = 0 /\ col = 0
    /\ word = <<>>
    /\ pil_img = NoImage
    /\ attempts = <<>>
    /\ probes = <<>>
    /\ fits = 0
    /\ calls = <<>>
    /\ drawn = <<>>
    /\ events = <<>>

\* The program as shipped: MARGIN = MARGIN_MM * mm, GAP = GAP_MM * mm.
\* python fiszki_pdf_generator.py [input.csv [output.pdf]]
InitMain ==
    /\ entry = "main"
    /\ argc \in 0..MaxArgc
    /\ inFile \in InputFiles
    /\ pc = "main"
    /\ rows = <<>>
    /\ genCalls = <<>>

\* generate_pdf(data_rows, out_path) called by an importing module
InitDirect ==
    /\ entry = "generate_pdf"
    /\ argc = 0
    /\ inFile = MissingFile
    /\ pc = "generate_pdf"
    /\ rows \in DirectLists
    /\ genCalls = <<rows>>

Init ==
    /\ InitMain \/ InitDirect
    /\ MARGIN = MARGIN_MM * mm
    /\ GAP = GAP_MM * mm
    /\ InitProgram

\* The same program with the layout constants MARGIN_MM and GAP_MM edited.
MarginChoices == {MARGIN_MM, 105}
GapChoices == {GAP_MM, 3}

InitConfig ==
    /\ InitMain \/ InitDirect
    /\ MARGIN \in {m * mm : m \in MarginChoices}
    /\ GAP \in {g * mm : g \in GapChoices}
    /\ InitProgram

(* ------------------------------------------------------------------ *)
(* main                                                                *)
(* ------------------------------------------------------------------ *)
\* sys.exit(1) after printing msg
Exit(msg) ==
    /\ pc' = "exited"
    /\ exitStatus' = 1
    /\ out' = Append(out, msg)

\* an exception leaves fn and nothing up to the top level catches it
\* (the interpreter then ends the script with status 1)
Raise(fn) ==
    /\ pc' = "raised"
    /\ exitStatus' = IF entry = "main" THEN 1 ELSE exitStatus
    /\ raisedBy' = fn

\* if len(sys.argv) < 3: usage, exit
MainCheckArgs ==
    /\ pc = "main"
    /\ IF argc + 1 < 3
       THEN Exit("usage") /\ UNCHANGED raisedBy
       ELSE pc' = "main_exists" /\ UNCHANGED <<exitStatus, out, raisedBy>>
    /\ UNCHANGED <<inputVars, rows, genCalls, layoutVars, loopVars, cardVars,
                   canvasVars>>

\* if not os.path.exists(in_csv): message, exit
MainCheckExists ==
    /\ pc = "main_exists"
    /\ IF ~inFile.exists
       THEN Exit("missing") /\ UNCHANGED raisedBy
       ELSE pc' = "read_csv" /\ UNCHANGED <<exitStatus, out, raisedBy>>
    /\ UNCHANGED <<inputVars, rows, genCalls, layoutVars, loopVars, cardVars,
                   canvasVars>>

\* rows = read_csv(in_csv); open() or the UTF-8 decoding may raise
MainReadCsv ==
    /\ pc = "read_csv"
    /\ IF ~inFile.readable
       THEN Raise("read_csv") /\ UNCHANGED <<out, rows>>
       ELSE /\ rows' = read_csv(inFile)
            /\ pc' = "main_rows"
            /\ UNCHANGED <<exitStatus, out, raisedBy>>
    /\ UNCHANGED <<inputVars, genCalls, layoutVars, loopVars, cardVars,
                   canvasVars>>

\* (mutant) the check for an empty list is missing
MainCheckRowsMut ==
    /\ pc = "main_rows"
    /\ pc' = "generate_pdf"
    /\ genCalls' = Append(genCalls, rows)
    /\ UNCHANGED <<exitStatus, out, raisedBy>>
    /\ UNCHANGED <<inputVars, rows, layoutVars, loopVars, cardVars, canvasVars>>

\* if not rows: message, exit; else generate_pdf(rows, out_pdf)
MainCheckRows ==
    /\ pc = "main_rows"
    /\ IF rows = <<>>
       THEN Exit("norows") /\ UNCHANGED <<raisedBy, genCalls>>
       ELSE /\ pc' = "generate_pdf"
            /\ genCalls' = Append(genCalls, rows)
            /\ UNCHANGED <<exitStatus, out, raisedBy>>
    /\ UNCHANGED <<inputVars, rows, layoutVars, loopVars, cardVars, canvasVars>>

(* ------------------------------------------------------------------ *)
(* generate_pdf                                                        *)
(* ------------------------------------------------------------------ *)
page_w == PAGE_SIZE[1]
page_h == PAGE_SIZE[2]

\* (mutant) the margin is subtracted on one side only
CardWMut == (page_w - MARGIN - (COLUMNS - 1) * GAP) \div COLUMNS

CardW == (page_w - 2 * MARGIN - (COLUMNS - 1) * GAP) \div COLUMNS
CardH == (page_h - 2 * MARGIN - (ROWS - 1) * GAP) \div ROWS

\* math.ceil(a / b) for a >= 0, b > 0
Ceil(a, b) == (a + b - 1) \div b

\* (mutant) a page too many when n is a multiple of CARDS_PER_PAGE
PagesMut(n) == n \div CARDS_PER_PAGE + 1

Pages(n) == IF n > 0 THEN Ceil(n, CARDS_PER_PAGE) ELSE 1

CardX(c) == MARGIN + c * (card_w + GAP)
\* (mutant) rows placed from the bottom in reading order
CardYMut(rw) == MARGIN + rw * (card_h + GAP)

CardY(rw) == MARGIN + (ROWS - 1 - rw) * (card_h + GAP)

\* (mutant) the list is walked from its end
ItemAtMut(data_rows, i) == data_rows[Len(data_rows) - i]

\* data_rows[idx], idx counted from 0
ItemAt(data_rows, i) == data_rows[i + 1]

\* lines 215-224: canvas, card size, total, pages, idx = 0
GeneratePdfBegin ==
    /\ pc = "generate_pdf"
    /\ card_w' = CardW
    /\ card_h' = CardH
    /\ total' = Len(rows)
    /\ pages' = Pages(Len(rows))
    /\ idx' = 0
    /\ p' = 0
    /\ pc' = "page"
    /\ UNCHANGED <<inputVars, mainVars, r, col, cardVars, canvasVars>>

\* for p in range(pages): ...; after the loop c.save()
PageLoop ==
    /\ pc = "page"
    /\ IF p < pages
       THEN r' = 0 /\ pc' = "row"
       ELSE r' = r /\ pc' = "save"
    /\ UNCHANGED <<inputVars, mainVars, layoutVars, idx, p, col, cardVars,
                   canvasVars>>

\* (mutant) the last page is never closed
ShowPageMut ==
    /\ events' = IF idx < total THEN Append(events, "showPage") ELSE events
    /\ p' = p + 1
    /\ pc' = "page"

\* c.showPage() at the end of the body of the page loop
ShowPage ==
    /\ events' = Append(events, "showPage")
    /\ p' = p + 1
    /\ pc' = "page"

\* for r in range(ROWS): ...; after the loop c.showPage()
RowLoop ==
    /\ pc = "row"
    /\ IF r < ROWS
       THEN col' = 0 /\ pc' = "col" /\ UNCHANGED <<p, events>>
       ELSE ShowPage /\ col' = col
    /\ UNCHANGED <<inputVars, mainVars, layoutVars, idx, r, cardVars, calls,
                   drawn>>

\* for col in range(COLUMNS): if idx >= total: break; ...; draw_card(...)
\* The break leaves the column loop only: the row loop goes on.
ColLoop ==
    /\ pc = "col"
    /\ IF col < COLUMNS /\ ~(idx >= total)
       THEN /\ calls' = Append(calls,
                   [x |-> CardX(col), y |-> CardY(r), w |-> card_w,
                    h |-> card_h, item |-> ItemAt(rows, idx),
                    page |-> p, row |-> r, col |-> col])
            /\ events' = Append(events, "draw_card")
            /\ word' = ItemAt(rows, idx).TEKST
            /\ attempts' = <<>>
            /\ probes' = <<>>
            /\ fits' = 0
            /\ pc' = "fetch_image"
            /\ r' = r
       ELSE /\ r' = r + 1
            /\ pc' = "row"
            /\ UNCHANGED <<calls, events, word, attempts, probes, fits>>
    /\ UNCHANGED <<inputVars, mainVars, layoutVars, idx, p, col, pil_img, drawn>>

(* ------------------------------------------------------------------ *)
(* draw_card                                                           *)
(* ------------------------------------------------------------------ *)
CurrentItem == calls[Len(calls)].item

\* (mutant) the call of fetch_image stands outside any try block
FetchImageMut ==
    /\ pc = "fetch_image"
    /\ LET res == fetch_image(CurrentItem.LINK_DO_OBRAZKA)
       IN /\ attempts' = res.attempts
          /\ probes' = res.probes
          /\ IF res.img # NoImage
             THEN /\ pil_img' = res.img
                  /\ pc' = "fit1"
                  /\ UNCHANGED <<exitStatus, raisedBy>>
             ELSE /\ pil_img' = pil_img
                  /\ Raise("fetch_image")
    /\ UNCHANGED <<inputVars, out, rows, genCalls, layoutVars, loopVars, word,
                   fits, canvasVars>>

\* lines 186-189: try: fetch_image(link) except Exception: placeholder
FetchImage ==
    /\ pc = "fetch_image"
    /\ LET res == fetch_image(CurrentItem.LINK_DO_OBRAZKA)
       IN /\ pil_img' = IF res.img # NoImage THEN res.img
                        ELSE make_placeholder(word)
          /\ attempts' = res.attempts
          /\ probes' = res.probes
    /\ pc' = "fit1"
    /\ UNCHANGED <<inputVars, mainVars, layoutVars, loopVars, word, fits,
                   canvasVars>>

\* (mutant) the except block fits the same image again
Fit1Mut ==
    /\ pc = "fit1"
    /\ fits' = fits + 1
    /\ \E ok \in FitOutcomes(pil_img) :
          IF ok
          THEN pc' = "drawImage" /\ pil_img' = pil_img
          ELSE pc' = "fit2" /\ pil_img' = pil_img
    /\ UNCHANGED <<inputVars, mainVars, layoutVars, loopVars, word, attempts,
                   probes, canvasVars>>

\* lines 191-194: first pil_image_to_reportlab; on failure a fresh placeholder
Fit1 ==
    /\ pc = "fit1"
    /\ fits' = fits + 1
    /\ \E ok \in FitOutcomes(pil_img) :
          IF ok
          THEN pc' = "drawImage" /\ pil_img' = pil_img
          ELSE pc' = "fit2" /\ pil_img' = make_placeholder(word)
    /\ UNCHANGED <<inputVars, mainVars, layoutVars, loopVars, word, attempts,
                   probes, canvasVars>>

\* line 195: second pil_image_to_reportlab, inside the except block: a
\* failure here is not caught
Fit2 ==
    /\ pc = "fit2"
    /\ fits' = fits + 1
    /\ \E ok \in FitOutcomes(pil_img) :
          IF ok
          THEN pc' = "drawImage" /\ UNCHANGED <<exitStatus, raisedBy>>
          ELSE Raise("pil_image_to_reportlab")
    /\ UNCHANGED <<inputVars, out, rows, genCalls, layoutVars, loopVars, word,
                   pil_img, attempts, probes, canvasVars>>

\* lines 198-212 and 235: c.drawImage, the texts below it, return, idx += 1
DrawImage ==
    /\ pc = "drawImage"
    /\ drawn' = Append(drawn, pil_img)
    /\ events' = Append(events, "drawImage")
    /\ idx' = idx + 1
    /\ col' = col + 1
    /\ pc' = "col"
    /\ UNCHANGED <<inputVars, mainVars, layoutVars, p, r, cardVars, calls>>

\* line 239: c.save()
Save ==
    /\ pc = "save"
    /\ events' = Append(events, "save")
    /\ pc' = "print"
    /\ UNCHANGED <<inputVars, mainVars, layoutVars, loopVars, cardVars, calls,
                   drawn>>

\* line 240: the summary line; generate_pdf and main return
PrintSummary ==
    /\ pc = "print"
    /\ out' = Append(out, "summary")
    /\ events' = Append(events, "print")
    /\ exitStatus' = IF entry = "main" THEN 0 ELSE exitStatus
    /\ pc' = "done"
    /\ UNCHANGED <<inputVars, raisedBy, rows, genCalls, layoutVars, loopVars,
                   cardVars, calls, drawn>>

Next ==
    \/ MainCheckArgs
    \/ MainCheckExists
    \/ MainReadCsv
    \/ MainCheckRows
    \/ GeneratePdfBegin
    \/ PageLoop
    \/ RowLoop
    \/ ColLoop
    \/ FetchImage
    \/ Fit1
    \/ Fit2
    \/ DrawImage
    \/ Save
    \/ PrintSummary

Spec == Init /\ [][Next]_vars

SpecConfig == InitConfig /\ [][Next]_vars

(* ------------------------------------------------------------------ *)
(* Vocabulary of the properties                                        *)
(* ------------------------------------------------------------------ *)
Count(seq, what) == Cardinality({j \in 1..Len(seq) : seq[j] = what})

\* position in events of the k-th draw_card call
DrawPos(k) ==
    CHOOSE j \in 1..Len(events) :
        /\ events[j] = "draw_card"
        /\ Cardinality({i \in 1..j : events[i] = "draw_card"}) = k

\* number of events of one kind strictly between two positions
Between(a, b, what) ==
    Cardinality({j \in (a + 1)..(b - 1) : events[j] = what})

\* page index of the k-th card (k from 1), as a function of k alone
PageOf(k) == (k - 1) \div CARDS_PER_PAGE

CardsOnPage(q) == {k \in 1..Len(calls) : calls[k].page = q}

PagesEmitted == Count(events, "showPage")

(* ------------------------------------------------------------------ *)
(* C1                                                                  *)
(* ------------------------------------------------------------------ *)
\* C1: generate_pdf draws one card per record, in input order: the k-th
\* draw_card call receives the k-th record, the record index stays inside
\* the list, the k-th card (k from 0) lies on page k div CARDS_PER_PAGE at
\* row (k mod CARDS_PER_PAGE) div COLUMNS and column k mod COLUMNS, and when
\* generate_pdf returns every record has its card and every page but the
\* last holds CARDS_PER_PAGE cards.
C1_CardsInInputOrder ==
    /\ idx <= Len(rows)
    /\ Len(calls) <= Len(rows)
    /\ pc \in {"fetch_image", "fit1", "fit2", "drawImage"} =>
          idx < Len(rows) /\ Len(calls) = idx + 1
    /\ \A k \in 1..Len(calls) :
          /\ calls[k].item = rows[k]
          /\ calls[k].page = (k - 1) \div CARDS_PER_PAGE
          /\ calls[k].row = ((k - 1) % CARDS_PER_PAGE) \div COLUMNS
          /\ calls[k].col = (k - 1) % COLUMNS
    /\ pc = "done" =>
          /\ Len(calls) = Len(rows)
          /\ Len(drawn) = Len(rows)
          /\ \A q \in 0..(PagesEmitted - 2) :
                Cardinality(CardsOnPage(q)) = CARDS_PER_PAGE

\* ten records: nine cards on page 0 and one on page 1
C1_Witness ==
    /\ pc = "done"
    /\ Len(rows) = CARDS_PER_PAGE + 1
    /\ Cardinality(CardsOnPage(0)) = CARDS_PER_PAGE
    /\ CardsOnPage(1) = {CARDS_PER_PAGE + 1}

(* ------------------------------------------------------------------ *)
(* C2                                                                  *)
(* ------------------------------------------------------------------ *)
\* C2: when generate_pdf returns, the number of showPage calls is
\* max(1, ceil(n / CARDS_PER_PAGE)) for n records: one page without a card
\* for n = 0, and for n > 0 the least number of pages that holds n cards,
\* each page carrying at least one card.
C2_PageCount ==
    pc = "done" =>
        LET n == Len(rows)
        IN /\ n = 0 => PagesEmitted = 1 /\ calls = <<>>
           /\ n > 0 =>
                 /\ PagesEmitted * CARDS_PER_PAGE >= n
                 /\ (PagesEmitted - 1) * CARDS_PER_PAGE < n
                 /\ \A q \in 0..(PagesEmitted - 1) : CardsOnPage(q) # {}

\* the empty list: one blank page
C2_Witness ==
    /\ pc = "done"
    /\ rows = <<>>
    /\ PagesEmitted = 1
    /\ calls = <<>>

(* ------------------------------------------------------------------ *)
(* C5                                                                  *)
(* ------------------------------------------------------------------ *)
Disjoint(a, b) ==
    \/ a.x + a.w <= b.x
    \/ b.x + b.w <= a.x
    \/ a.y + a.h <= b.y
    \/ b.y + b.h <= a.y

Inside(a) ==
    /\ a.w > 0 /\ a.h > 0
    /\ MARGIN <= a.x /\ a.x + a.w <= page_w - MARGIN
    /\ MARGIN <= a.y /\ a.y + a.h <= page_h - MARGIN

\* The cards of page q fill the printable area: COLUMNS distinct left edges
\* and ROWS distinct bottom edges, every combination taken by one card, the
\* first edge on the margin, each next edge one card size plus GAP further,
\* the last card ending on the opposite margin.
Tiles(q) ==
    LET cs == {calls[k] : k \in CardsOnPage(q)}
        xs == {a.x : a \in cs}
        ys == {a.y : a \in cs}
    IN /\ Cardinality(xs) = COLUMNS
       /\ Cardinality(ys) = ROWS
       /\ \A u \in xs : \A v \in ys : \E a \in cs : a.x = u /\ a.y = v
       /\ \A a \in cs :
             /\ a.x = MARGIN \/ \E b \in cs : b.x + b.w + GAP = a.x
             /\ a.y = MARGIN \/ \E b \in cs : b.y + b.h + GAP = a.y
             /\ a.x + a.w = page_w - MARGIN \/ \E b \in cs : a.x + a.w + GAP = b.x
             /\ a.y + a.h = page_h - MARGIN \/ \E b \in cs : a.y + a.h + GAP = b.y

\* C5: on one page no two card rectangles overlap, every card rectangle lies
\* inside the printable area, and the CARDS_PER_PAGE rectangles of a full
\* page together with the gaps between them cover the printable area.
C5_NoOverlapAndTiling ==
    /\ \A i, j \in 1..Len(calls) :
          i # j /\ calls[i].page = calls[j].page => Disjoint(calls[i], calls[j])
    /\ \A i \in 1..Len(calls) : Inside(calls[i])
    /\ \A q \in 0..pages :
          Cardinality(CardsOnPage(q)) = CARDS_PER_PAGE => Tiles(q)

\* a full page has been laid out
C5_Witness ==
    /\ Cardinality(CardsOnPage(0)) = CARDS_PER_PAGE
    /\ Tiles(0)

(* ------------------------------------------------------------------ *)
(* C6                                                                  *)
(* ------------------------------------------------------------------ *)
\* C6: the card at (row, col) has x = MARGIN + col * (cardWidth + GAP) and
\* y = MARGIN + (ROWS - 1 - row) * (cardHeight + GAP), with cardWidth and
\* cardHeight the derived card size; on every page a smaller row has a
\* strictly larger y, row 0 has the largest y, the last row has y = MARGIN,
\* and a smaller column has a strictly smaller x.
C6_RowsTopDown ==
    /\ \A k \in 1..Len(calls) :
          LET a == calls[k]
          IN /\ a.w * COLUMNS = page_w - 2 * MARGIN - (COLUMNS - 1) * GAP
             /\ a.h * ROWS = page_h - 2 * MARGIN - (ROWS - 1) * GAP
             /\ a.x = MARGIN + a.col * (a.w + GAP)
             /\ a.y = MARGIN + (ROWS - 1 - a.row) * (a.h + GAP)
             /\ a.row = ROWS - 1 => a.y = MARGIN
    /\ \A i, j \in 1..Len(calls) :
          calls[i].page = calls[j].page =>
             /\ calls[i].row < calls[j].row => calls[i].y > calls[j].y
             /\ calls[i].row = 0 => calls[i].y >= calls[j].y
             /\ calls[i].col < calls[j].col => calls[i].x < calls[j].x

\* a page with cards in its first and in its last row
C6_Witness ==
    \E i, j \in 1..Len(calls) :
        /\ calls[i].page = calls[j].page
        /\ calls[i].row = 0
        /\ calls[j].row = ROWS - 1
        /\ calls[i].y > calls[j].y
        /\ calls[j].y = MARGIN

(* ------------------------------------------------------------------ *)
(* C7                                                                  *)
(* ------------------------------------------------------------------ *)
\* C7: the document is saved at most once and, when generate_pdf returns,
\* exactly once, after the last draw_card and the last showPage; nothing is
\* drawn after the save; between two consecutive cards there is a showPage
\* exactly when their page indices differ, none before the first card, and
\* one more closes the last page; the summary is printed only right after
\* the save.
C7_SaveOnceAtEnd ==
    LET n == Len(events)
        m == Count(events, "draw_card")
    IN /\ Count(events, "save") <= 1
       /\ Count(events, "print") <= 1
       /\ \A j \in 1..n :
             /\ events[j] = "save" => \A i \in (j + 1)..n : events[i] = "print"
             /\ events[j] = "print" => j > 1 /\ events[j - 1] = "save"
       /\ m = Len(calls)
       /\ m > 0 => Between(0, DrawPos(1), "showPage") = 0
       /\ \A k \in 1..(m - 1) :
             Between(DrawPos(k), DrawPos(k + 1), "showPage")
                = IF PageOf(k) # PageOf(k + 1) THEN 1 ELSE 0
       /\ m > 0 => Between(DrawPos(m), n + 1, "showPage") <= 1
       /\ pc = "done" =>
             /\ n >= 3
             /\ events[n] = "print"
             /\ events[n - 1] = "save"
             /\ events[n - 2] = "showPage"
             /\ Count(events, "save") = 1
             /\ m > 0 => Between(DrawPos(m), n + 1, "showPage") = 1
             /\ m = 0 => PagesEmitted = 1
             /\ "summary" \in {out[i] : i \in 1..Len(out)}
       /\ "summary" \in {out[i] : i \in 1..Len(out)} =>
             Count(events, "save") = 1

\* a run that crossed a page boundary between two cards and returned
C7_Witness ==
    /\ pc = "done"
    /\ Len(calls) = CARDS_PER_PAGE + 1
    /\ Between(DrawPos(CARDS_PER_PAGE), DrawPos(CARDS_PER_PAGE + 1), "showPage") = 1
    /\ events[Len(events) - 1] = "save"

(* ------------------------------------------------------------------ *)
(* C3                                                                  *)
(* ------------------------------------------------------------------ *)
Terminated == pc \in {"done", "exited", "raised"}

Printed(msg) == msg \in {out[i] : i \in 1..Len(out)}

\* fetch_image raises for this link
FetchFails(link) == fetch_image(link).img = NoImage

\* C3: no failure of fetch_image leaves draw_card: whatever the link (empty,
\* a missing path, a failing or invalid URL, an undecodable file), the
\* failure is replaced by the placeholder built from the record's own term,
\* the program goes on to fit and draw that card, and in every run that
\* returns all cards, those after a failed fetch included, are drawn and the
\* document is saved.  The only exception that can leave draw_card is the
\* fitter's second failure.
C3_FetchFailureAbsorbed ==
    /\ raisedBy # "fetch_image"
    /\ pc = "raised" /\ raisedBy # "read_csv" =>
          raisedBy = "pil_image_to_reportlab" /\ fits = 2
    /\ pc = "fit1" /\ FetchFails(CurrentItem.LINK_DO_OBRAZKA) =>
          pil_img = make_placeholder(CurrentItem.TEKST)
    /\ \A k \in 1..Len(drawn) :
          FetchFails(rows[k].LINK_DO_OBRAZKA) =>
             drawn[k] = make_placeholder(rows[k].TEKST)
    /\ pc = "done" => Len(drawn) = Len(rows) /\ Count(events, "save") = 1
    /\ ~Terminated => ENABLED Next

\* a card whose fetch failed was drawn with its placeholder, the next card
\* was drawn with its image, and the document was saved
C3_Witness ==
    /\ pc = "done"
    /\ \E k \in 1..(Len(rows) - 1) :
          /\ FetchFails(rows[k].LINK_DO_OBRAZKA)
          /\ rows[k].LINK_DO_OBRAZKA # <<>>
          /\ drawn[k] = make_placeholder(rows[k].TEKST)
          /\ drawn[k + 1].kind = "good"

(* ------------------------------------------------------------------ *)
(* C4                                                                  *)
(* ------------------------------------------------------------------ *)
Usable(rr) ==
    ~(rr.TEKST = <<>> /\ rr.TLUMACZENIE = <<>> /\ rr.LINK_DO_OBRAZKA = <<>>)

UsableLines(file) == {i \in 1..Len(file.rows) : Usable(file.rows[i])}

\* recs are the usable lines of file, each once, in file order, stripped
InFileOrder(recs, file) ==
    /\ {recs[k].row_index : k \in 1..Len(recs)} = UsableLines(file)
    /\ \A k \in 1..(Len(recs) - 1) : recs[k].row_index < recs[k + 1].row_index
    /\ \A k \in 1..Len(recs) :
          LET rr == file.rows[recs[k].row_index]
          IN /\ recs[k].TEKST = strip(rr.TEKST)
             /\ recs[k].TLUMACZENIE = strip(rr.TLUMACZENIE)
             /\ recs[k].LINK_DO_OBRAZKA = strip(rr.LINK_DO_OBRAZKA)

\* the three cases in which main prints a message and exits
RejectedCase ==
    \/ argc < 2
    \/ ~inFile.exists
    \/ inFile.readable /\ UsableLines(inFile) = {}

RejectMessage ==
    IF argc < 2 THEN "usage"
    ELSE IF ~inFile.exists THEN "missing"
    ELSE "norows"

Rejected ==
    /\ pc = "exited"
    /\ exitStatus # 0
    /\ out = <<RejectMessage>>
    /\ genCalls = <<>>
    /\ events = <<>>
    /\ calls = <<>>

CalledOnceInFileOrder ==
    /\ Len(genCalls) = 1
    /\ genCalls[1] # <<>>
    /\ InFileOrder(genCalls[1], inFile)

\* C4 as stated: main exits non-zero with a message, without calling
\* generate_pdf, when there are fewer than 2 arguments, when the input path
\* does not exist and when the input has no usable record; in every other
\* case generate_pdf is called exactly once with the records in file order.
C4_Original ==
    entry = "main" =>
        /\ RejectedCase => genCalls = <<>> /\ events = <<>>
        /\ Terminated =>
              IF RejectedCase THEN Rejected ELSE CalledOnceInFileOrder

\* C4 as amended: as stated for the three cases; when the input path exists
\* but read_csv raises (the file cannot be opened or decoded), the exception
\* leaves main, which prints nothing, ends non-zero and does not call
\* generate_pdf; in every remaining case generate_pdf is called exactly once
\* with the non-empty list of records in file order.
C4_Amended ==
    entry = "main" =>
        /\ Len(genCalls) <= 1
        /\ RejectedCase \/ ~inFile.readable =>
              genCalls = <<>> /\ events = <<>> /\ calls = <<>>
        /\ genCalls # <<>> => CalledOnceInFileOrder
        /\ Terminated =>
              IF RejectedCase THEN Rejected
              ELSE IF ~inFile.readable
              THEN /\ pc = "raised"
                   /\ raisedBy = "read_csv"
                   /\ exitStatus # 0
                   /\ out = <<>>
              ELSE CalledOnceInFileOrder

\* main ended by the exception of read_csv
C4_Witness ==
    /\ entry = "main"
    /\ argc >= 2
    /\ inFile.exists
    /\ pc = "raised"
    /\ raisedBy = "read_csv"
    /\ genCalls = <<>>

(* ------------------------------------------------------------------ *)
(* C8                                                                  *)
(* ------------------------------------------------------------------ *)
CurrentLink == CurrentItem.LINK_DO_OBRAZKA

Blank(link) == strip(link) = <<>>

Failed == pil_img = make_placeholder(word)

\* C8 as stated: the one strategy attempted for a card is the first match
\* of (1) empty or blank link: placeholder without file or network access,
\* (2) existing local path: open it, (3) link with an HTTP(S) scheme: one
\* fetch with timeout REQUEST_TIMEOUT, (4) otherwise open the link itself as
\* a path; no second attempt follows a failure.  Stated for the cards of a
\* run of the script, whose links read_csv has stripped.
C8_Original ==
    entry = "main" /\ pc = "fit1" =>
        /\ Len(attempts) <= 1
        /\ IF Blank(CurrentLink)
           THEN attempts = <<>> /\ probes = <<>> /\ Failed
           ELSE IF exists(CurrentLink)
           THEN attempts = <<Access("open", CurrentLink, 0)>>
           ELSE IF startswith(lower(CurrentLink), HTTP_PREFIX)
           THEN attempts = <<Access("http", CurrentLink, REQUEST_TIMEOUT)>>
           ELSE attempts = <<Access("open", CurrentLink, 0)>>

\* C8 as amended: the one strategy attempted is the first match of (1) empty
\* link: placeholder without any access, (1b) link starting with file://:
\* open the path that follows the prefix, without testing that it exists,
\* (2) existing local path: open it, (3) link starting with http in any
\* letter case: one fetch with timeout REQUEST_TIMEOUT, (4) otherwise open
\* the link itself; at most one access is made per card, a fetch only in
\* case (3), and a failed access leads to the placeholder.  A blank cell of
\* the CSV file is empty when it reaches fetch_image, because read_csv
\* strips it.
C8_Amended ==
    /\ Len(attempts) <= 1
    /\ pc = "fit1" =>
          /\ IF CurrentLink = <<>>
             THEN attempts = <<>> /\ probes = <<>> /\ Failed
             ELSE IF startswith(CurrentLink, FILE_PREFIX)
             THEN /\ attempts =
                        <<Access("open",
                                 SubSeq(CurrentLink, Len(FILE_PREFIX) + 1,
                                        Len(CurrentLink)), 0)>>
                  /\ probes = <<>>
             ELSE IF exists(CurrentLink)
             THEN attempts = <<Access("open", CurrentLink, 0)>>
             ELSE IF startswith(lower(CurrentLink), HTTP_PREFIX)
             THEN attempts = <<Access("http", CurrentLink, REQUEST_TIMEOUT)>>
             ELSE attempts = <<Access("open", CurrentLink, 0)>>
          /\ \A i \in 1..Len(attempts) :
                attempts[i].access = "http" =>
                   /\ ~exists(CurrentLink)
                   /\ CurrentLink # <<>>
                   /\ attempts[i].timeout = REQUEST_TIMEOUT
          /\ Failed \/ pil_img.kind \in {"good", "unsavable"}
          /\ entry = "main"
                /\ Blank(inFile.rows[CurrentItem.row_index].LINK_DO_OBRAZKA) =>
                attempts = <<>> /\ probes = <<>> /\ Failed

\* a file:// link resolved by opening the path behind the prefix
C8_Witness ==
    /\ entry = "main"
    /\ pc = "fit1"
    /\ startswith(CurrentLink, FILE_PREFIX)
    /\ attempts = <<Access("open", <<"a">>, 0)>>
    /\ pil_img.kind = "good"

(* ------------------------------------------------------------------ *)
(* C9                                                                  *)
(* ------------------------------------------------------------------ *)
FitterRaised == pc = "raised" /\ raisedBy = "pil_image_to_reportlab"

\* C9: per card the fitter runs at most twice; the second run happens only
\* after the first failed and gets a fresh placeholder built from the term;
\* every card that finishes has drawn exactly one image (its own image, or
\* its placeholder); when the second run fails the exception leaves
\* draw_card and generate_pdf: the program stops, the card in progress and
\* all later cards stay undrawn, nothing is saved and no summary is printed.
C9_SecondFit ==
    /\ fits \in 0..2
    /\ pc = "fit1" => fits = 0
    /\ pc = "fit2" =>
          fits = 1 /\ pil_img = make_placeholder(CurrentItem.TEKST)
    /\ pc = "drawImage" =>
          /\ fits \in {1, 2}
          /\ fits = 2 => pil_img = make_placeholder(CurrentItem.TEKST)
    /\ Len(drawn) = idx
    /\ Count(events, "drawImage") = Len(drawn)
    /\ \A k \in 1..(Len(calls) - 1) :
          Between(DrawPos(k), DrawPos(k + 1), "drawImage") = 1
    /\ \A k \in 1..Len(drawn) :
          \/ drawn[k].kind = "good"
          \/ drawn[k] = make_placeholder(rows[k].TEKST)
    /\ FitterRaised =>
          /\ fits = 2
          /\ Len(calls) = Len(drawn) + 1
          /\ events[Len(events)] = "draw_card"
          /\ Count(events, "save") = 0
          /\ ~Printed("summary")
          /\ ~ENABLED Next

\* the fitter failed twice on the second card, after the first card had
\* been drawn with a placeholder in place of an image that cannot be fitted
C9_Witness ==
    /\ FitterRaised
    /\ Len(drawn) = 1
    /\ rows[1].LINK_DO_OBRAZKA = <<"c">>
    /\ drawn[1] = make_placeholder(rows[1].TEKST)
    /\ Len(rows) > Len(calls)

(* ------------------------------------------------------------------ *)
(* C10                                                                 *)
(* ------------------------------------------------------------------ *)
PositiveCardSize ==
    /\ page_w - 2 * MARGIN - (COLUMNS - 1) * GAP > 0
    /\ page_h - 2 * MARGIN - (ROWS - 1) * GAP > 0

====
